---- MODULE Spec2Model ----
(***************************************************************************)
(* A model of scrapy/addons.py: AddonManager.load_pre_crawler_settings     *)
(* (Phase 1, a classmethod) and AddonManager.load_settings (Phase 2).      *)
(* One action per statement of the two loops; the add-on classes that the  *)
(* ADDONS setting can name are a fixed table of behaviours.                *)
(***************************************************************************)
EXTENDS Integers, Sequences, FiniteSets, TLC

\* ------------------------------------------------------------ bounds
\* At most this many add-ons are configured in ADDONS initially.
MaxAddons == 3
\* At most this many calls of the two methods are made on one manager.
MaxRuns == 2

\* ------------------------------------------------------------ add-on classes
\* The class paths ADDONS may name, in a fixed order (used to break ties).
ClassOrder ==
  << "Alpha", "Beta", "NoHooks", "CtorNC", "HookNC",
     "CtorErr", "HookErr", "Missing", "ImportNC", "Mover" >>

Classes == { ClassOrder[i] : i \in 1..Len(ClassOrder) }

RankTable == [ c \in Classes |-> CHOOSE i \in 1..Len(ClassOrder) : ClassOrder[i] = c ]

Rank(c) == RankTable[c]

\* What every class does unless stated otherwise below.
\*   load       outcome of load_object(clspath)
\*   requires   a class whose settings entry the constructor reads ("" = none);
\*              the constructor raises NotConfigured while that entry is unset
\*   ctor_write / us_write / pre_write   what the step writes before it returns
\*              or raises: "none", "own" (its own settings entry), "reprio"
\*              (ADDONS[self] := 0), "remove" (delete self from ADDONS), "add"
\*              (ADDONS["NoHooks"] := 0, a new entry when NoHooks is not configured)
\*   ctor / us / pre   outcome of the step: "none", "NotConfigured", "Error"
\*   has_us / has_pre  hasattr(..., "update_settings" / "update_pre_crawler_settings")
\*   args       the args of the NotConfigured the class raises
Plain ==
  [ load |-> "none", requires |-> "",
    ctor_write |-> "none", ctor |-> "none",
    has_us |-> TRUE, us_write |-> "own", us |-> "none",
    has_pre |-> TRUE, pre_write |-> "own", pre |-> "none",
    args |-> << >> ]

ClassTable ==
  [ c \in Classes |->
  CASE c = "Alpha"    -> Plain
    [] c = "Beta"     -> [Plain EXCEPT !.requires = "Alpha", !.has_pre = FALSE,
                                       !.args = << "needs Alpha" >>]
    [] c = "NoHooks"  -> [Plain EXCEPT !.has_us = FALSE, !.has_pre = FALSE]
    [] c = "CtorNC"   -> [Plain EXCEPT !.ctor_write = "own", !.ctor = "NotConfigured",
                                       !.pre_write = "none",
                                       !.args = << "no optional dependency" >>]
    [] c = "HookNC"   -> [Plain EXCEPT !.us = "NotConfigured", !.pre = "NotConfigured"]
    [] c = "CtorErr"  -> [Plain EXCEPT !.ctor_write = "own", !.ctor = "Error",
                                       !.pre = "Error"]
    [] c = "HookErr"  -> [Plain EXCEPT !.us = "Error", !.has_pre = FALSE]
    [] c = "Missing"  -> [Plain EXCEPT !.load = "Error"]
    [] c = "ImportNC" -> [Plain EXCEPT !.load = "NotConfigured",
                                       !.args = << "import-time opt-out" >>]
    [] c = "Mover"    -> [Plain EXCEPT !.ctor_write = "add", !.us_write = "remove",
                                       !.pre_write = "reprio"] ]

AddonClass(c) == ClassTable[c]

\* ------------------------------------------------------------ settings
Unset == "unset"

\* The assignments of distinct priorities 1..n to the n add-ons of S: one for
\* each order the resolver can produce for them.
Priorities(S) ==
  { a \in [S -> 1..Cardinality(S)] : \A c, d \in S : c # d => a[c] # a[d] }

\* settings["ADDONS"] as a function class path -> priority, plus one entry per class.
InitialSettings ==
  { [ADDONS |-> a, vals |-> [c \in Classes |-> Unset]] :
      a \in UNION { Priorities(S) :
                      S \in { T \in SUBSET Classes : Cardinality(T) <= MaxAddons } } }

\* The in-place mutation a constructor or hook of class c makes on settings.
ApplyWrite(s, c, w, mark) ==
  CASE w = "own"    -> [s EXCEPT !.vals[c] = mark]
    [] w = "reprio" -> IF c \in DOMAIN s.ADDONS
                         THEN [s EXCEPT !.ADDONS[c] = 0]
                         ELSE s
    [] w = "remove" -> [s EXCEPT !.ADDONS =
                          [d \in (DOMAIN s.ADDONS) \ {c} |-> s.ADDONS[d]]]
    [] w = "add"    -> [s EXCEPT !.ADDONS =
                          [d \in (DOMAIN s.ADDONS) \cup {"NoHooks"} |->
                             IF d = "NoHooks" THEN 0 ELSE s.ADDONS[d]]]
    [] OTHER        -> s

\* ------------------------------------------------------------ collaborators
\* build_component_list: ascending priority, ties in the fixed class order.
Before(a, c, d) ==
  \/ a[c] < a[d]
  \/ a[c] = a[d] /\ Rank(c) <= Rank(d)

RECURSIVE SortedFrom(_, _)
SortedFrom(a, S) ==
  IF S = {} THEN << >>
  ELSE LET m == CHOOSE c \in S : \A d \in S : Before(a, c, d)
       IN << m >> \o SortedFrom(a, S \ {m})

build_component_list(a) == SortedFrom(a, DOMAIN a)

\* load_object(clspath): "none" when it returns the class, else what it raises.
load_object(clspath) == AddonClass(clspath).load

\* build_from_crawler(addoncls, crawler): what the constructor raises, reading
\* the settings it reaches through the crawler.
build_from_crawler(clspath, s) ==
  LET k == AddonClass(clspath)
  IN IF k.requires # "" /\ s.vals[k.requires] = Unset
       THEN "NotConfigured"
       ELSE k.ctor

\* ------------------------------------------------------------ state
VARIABLES
  settings,   \* the Settings object shared by both phases and every add-on
  crawler,    \* self.crawler
  addons,     \* self.addons
  pc,         \* "idle", a statement of one of the two methods, "returned", "raised"
  phase,      \* 0 before any call, 1 in/after load_pre_crawler_settings, 2 load_settings
  order,      \* the list the for loop iterates (build_component_list's result)
  idx,        \* how many items of order the loop has taken
  addon,      \* the local `addon` of load_settings (<< >> while unbound)
  log,        \* the records logged by the current call
  events,     \* the calls into add-on code made by the current call, in order
  runs,       \* how many calls of the two methods have begun
  p2runs,     \* how many of them were load_settings
  entry       \* settings, addons and crawler as they were when the current call began

vars ==
  << settings, crawler, addons, pc, phase, order, idx, addon,
     log, events, runs, p2runs, entry >>

Snapshot == [settings |-> settings, addons |-> addons, crawler |-> crawler]

\* AddonManager.__init__ has run; nothing else has.
Init ==
  /\ settings \in InitialSettings
  /\ crawler = "crawler"
  /\ addons = << >>
  /\ pc = "idle"
  /\ phase = 0
  /\ order = << >>
  /\ idx = 0
  /\ addon = << >>
  /\ log = << >>
  /\ events = << >>
  /\ runs = 0
  /\ p2runs = 0
  /\ entry = [settings |-> settings, addons |-> << >>, crawler |-> "crawler"]

\* ------------------------------------------------------------ shared pieces
\* The item the for loop binds to clspath on its i-th iteration.
IterItemReversed(o, i) == o[Len(o) + 1 - i]

IterItemLive(o, i) ==
  LET live == build_component_list(settings.ADDONS)
  IN IF i <= Len(live) THEN live[i] ELSE o[i]

IterItem(o, i) == o[i]

clspath == IterItem(order, idx)

\* The settings after a call into add-on code: the callee writes in place and
\* nothing undoes the write when the callee then raises.
CallEffectRolledBack(s, c, w, mark, exc) ==
  IF exc = "none" THEN ApplyWrite(s, c, w, mark) ELSE s

CallEffectOnCopy(s, c, w, mark, exc) == s

CallEffect(s, c, w, mark, exc) == ApplyWrite(s, c, w, mark)

Event(op, exc, w, mark) ==
  [ clspath |-> clspath, op |-> op, exc |-> exc,
    seen |-> settings, write |-> w, mark |-> mark ]

\* Back to the item that opted out instead of on to the next one.
ls_NextRetries(op, exc, okpc) ==
  IF exc = "none" THEN okpc
  ELSE IF exc = "NotConfigured" THEN "ls_load_object"
  ELSE "raised"

\* The loop goes on without reaching the append.
ls_NextSkipsAppend(op, exc, okpc) ==
  IF exc = "none" THEN (IF okpc = "ls_append" THEN "ls_for" ELSE okpc)
  ELSE IF exc = "NotConfigured" THEN "ls_for"
  ELSE "raised"

\* A warning whether or not the exception carries args.
except_NotConfiguredAlways(l, c, args) ==
  Append(l, [level |-> "WARNING", clspath |-> c,
             eargs |-> IF args # << >> THEN args[1] ELSE "", addons |-> << >>])

\* Whether the try statement of load_settings catches exc raised by op.
ls_CaughtNothing(op, exc) == FALSE

ls_CaughtAll(op, exc) == exc # "none"

ls_CaughtNotInHook(op, exc) ==
  exc = "NotConfigured" /\ op \in {"load_object", "build_from_crawler"}

ls_CaughtNotInLoad(op, exc) ==
  exc = "NotConfigured" /\ op \in {"build_from_crawler", "update_settings"}

ls_Caught(op, exc) ==
  exc = "NotConfigured" /\ op \in {"load_object", "build_from_crawler", "update_settings"}

\* load_pre_crawler_settings has no try statement.
pre_CaughtNotConfigured(op, exc) == exc = "NotConfigured"

pre_Caught(op, exc) == FALSE

\* The except clause: a warning when the exception carries args.
except_NotConfigured(l, c, args) ==
  IF args # << >>
    THEN Append(l, [level |-> "WARNING", clspath |-> c, eargs |-> args[1],
                    addons |-> << >>])
    ELSE l

\* Where load_settings goes after a call into add-on code: on, back to the
\* loop head when the except clause caught the exception, or out.
ls_NextBreaks(op, exc, okpc) ==
  IF exc = "none" THEN okpc
  ELSE IF exc = "NotConfigured" THEN "ls_log_enabled"
  ELSE "raised"

ls_Next(op, exc, okpc) ==
  IF exc = "none" THEN okpc
  ELSE IF ls_Caught(op, exc) THEN "ls_for"
  ELSE "raised"

ls_Log(op, exc) ==
  IF exc # "none" /\ ls_Caught(op, exc)
    THEN except_NotConfigured(log, clspath, AddonClass(clspath).args)
    ELSE log

pre_Next(op, exc, okpc) ==
  IF exc = "none" THEN okpc
  ELSE IF pre_Caught(op, exc) THEN "pre_for"
  ELSE "raised"

\* The list each method iterates: build_component_list(settings["ADDONS"]).
ls_resolveDescending(s) ==
  LET l == build_component_list(s.ADDONS)
  IN [ i \in 1..Len(l) |-> l[Len(l) + 1 - i] ]

ls_resolve(s) == build_component_list(s.ADDONS)

pre_resolve(s) == build_component_list(s.ADDONS)

\* hasattr(addon, "update_settings") / hasattr(addoncls, "update_pre_crawler_settings")
hasattrAlways(k, name) == TRUE

hasattr(k, name) ==
  IF name = "update_settings" THEN k.has_us ELSE k.has_pre

\* self.addons.append(addon)
list_insert_front(l, x) == << x >> \o l

list_append(l, x) == Append(l, x)

CanCall == pc \in {"idle", "returned", "raised"} /\ runs < MaxRuns

\* ------------------------------------------------------------ load_settings
\* What entering load_settings does to everything but self.addons.
load_settings_step ==
  /\ CanCall
  /\ phase' = 2
  /\ order' = ls_resolve(settings)
  /\ idx' = 0
  /\ addon' = << >>
  /\ log' = << >>
  /\ events' = << >>
  /\ runs' = runs + 1
  /\ p2runs' = p2runs + 1
  /\ pc' = "ls_for"
  /\ UNCHANGED << settings, crawler >>

load_settings_resetting ==
  /\ load_settings_step
  /\ addons' = << >>
  /\ entry' = [Snapshot EXCEPT !.addons = << >>]

load_settings ==
  /\ load_settings_step
  /\ entry' = Snapshot
  /\ UNCHANGED addons

ls_for ==
  /\ pc = "ls_for"
  /\ IF idx < Len(order)
       THEN idx' = idx + 1 /\ pc' = "ls_load_object"
       ELSE idx' = idx /\ pc' = "ls_log_enabled"
  /\ UNCHANGED << settings, crawler, addons, phase, order, addon,
                  log, events, runs, p2runs, entry >>

ls_load_object ==
  /\ pc = "ls_load_object"
  /\ LET exc == load_object(clspath)
     IN /\ events' = Append(events, Event("load_object", exc, "none", ""))
        /\ pc' = ls_Next("load_object", exc, "ls_build_from_crawler")
        /\ log' = ls_Log("load_object", exc)
  /\ UNCHANGED << settings, crawler, addons, phase, order, idx, addon,
                  runs, p2runs, entry >>

ls_build_from_crawler ==
  /\ pc = "ls_build_from_crawler"
  /\ LET k == AddonClass(clspath)
         exc == build_from_crawler(clspath, settings)
     IN /\ settings' = CallEffect(settings, clspath, k.ctor_write, "ctor", exc)
        /\ events' = Append(events, Event("build_from_crawler", exc, k.ctor_write, "ctor"))
        /\ addon' = IF exc = "none" THEN << [cls |-> clspath, run |-> runs] >> ELSE addon
        /\ pc' = ls_Next("build_from_crawler", exc, "ls_update_settings")
        /\ log' = ls_Log("build_from_crawler", exc)
  /\ UNCHANGED << crawler, addons, phase, order, idx, runs, p2runs, entry >>

ls_update_settings ==
  /\ pc = "ls_update_settings"
  /\ LET k == AddonClass(addon[1].cls)
     IN IF hasattr(k, "update_settings")
          THEN /\ settings' = CallEffect(settings, clspath, k.us_write, "post", k.us)
               /\ events' = Append(events, Event("update_settings", k.us, k.us_write, "post"))
               /\ pc' = ls_Next("update_settings", k.us, "ls_append")
               /\ log' = ls_Log("update_settings", k.us)
          ELSE /\ pc' = "ls_append"
               /\ UNCHANGED << settings, events, log >>
  /\ UNCHANGED << crawler, addons, phase, order, idx, addon, runs, p2runs, entry >>

ls_append ==
  /\ pc = "ls_append"
  /\ addons' = list_append(addons, addon[1])
  /\ pc' = "ls_for"
  /\ UNCHANGED << settings, crawler, phase, order, idx, addon,
                  log, events, runs, p2runs, entry >>

ls_log_enabled ==
  /\ pc = "ls_log_enabled"
  /\ log' = Append(log, [level |-> "INFO", clspath |-> "", eargs |-> "",
                         addons |-> addons])
  /\ pc' = "returned"
  /\ UNCHANGED << settings, crawler, addons, phase, order, idx, addon,
                  events, runs, p2runs, entry >>

\* One iteration of the loop of load_settings as a function of the settings it
\* starts from: the settings it leaves, whether it appended the add-on, and
\* whether an exception left the try statement uncaught.
ls_body(c, s) ==
  LET k == AddonClass(c)
      e1 == load_object(c)
      e2 == build_from_crawler(c, s)
      s2 == CallEffect(s, c, k.ctor_write, "ctor", e2)
      has == hasattr(k, "update_settings")
      e3 == IF has THEN k.us ELSE "none"
      s3 == IF has THEN CallEffect(s2, c, k.us_write, "post", e3) ELSE s2
  IN IF e1 # "none"
       THEN [settings |-> s, appended |-> FALSE,
             raised |-> ~ls_Caught("load_object", e1)]
     ELSE IF e2 # "none"
       THEN [settings |-> s2, appended |-> FALSE,
             raised |-> ~ls_Caught("build_from_crawler", e2)]
     ELSE IF e3 # "none"
       THEN [settings |-> s3, appended |-> FALSE,
             raised |-> ~ls_Caught("update_settings", e3)]
     ELSE [settings |-> s3, appended |-> TRUE, raised |-> FALSE]

\* The whole loop over the list o from its i-th item on: the classes appended
\* (added to act), the settings left, and whether the call raised.
RECURSIVE ls_loop(_, _, _, _)
ls_loop(o, i, s, act) ==
  IF i > Len(o)
    THEN [settings |-> s, active |-> act, raised |-> FALSE]
    ELSE LET c == IterItem(o, i)
             r == ls_body(c, s)
         IN IF r.raised
              THEN [settings |-> r.settings, active |-> act, raised |-> TRUE]
              ELSE ls_loop(o, i + 1, r.settings,
                           IF r.appended THEN act \cup {c} ELSE act)

\* load_settings run on settings s.
ls_result(s) == ls_loop(ls_resolve(s), 1, s, {})

\* ------------------------------------------------------------ load_pre_crawler_settings
load_pre_crawler_settings ==
  /\ CanCall
  /\ phase' = 1
  /\ order' = pre_resolve(settings)
  /\ idx' = 0
  /\ addon' = << >>
  /\ log' = << >>
  /\ events' = << >>
  /\ runs' = runs + 1
  /\ entry' = Snapshot
  /\ pc' = "pre_for"
  /\ UNCHANGED << settings, crawler, addons, p2runs >>

pre_for ==
  /\ pc = "pre_for"
  /\ IF idx < Len(order)
       THEN idx' = idx + 1 /\ pc' = "pre_load_object"
       ELSE idx' = idx /\ pc' = "returned"
  /\ UNCHANGED << settings, crawler, addons, phase, order, addon,
                  log, events, runs, p2runs, entry >>

\* What pre_load_object does to everything but the manager's fields.
pre_load_object_step ==
  /\ pc = "pre_load_object"
  /\ LET exc == load_object(clspath)
     IN /\ events' = Append(events, Event("load_object", exc, "none", ""))
        /\ pc' = pre_Next("load_object", exc, "pre_update_pre_crawler_settings")
  /\ UNCHANGED << settings, phase, order, idx, log, runs, p2runs, entry >>

pre_load_object_storing ==
  /\ pre_load_object_step
  /\ addons' = Append(addons, [cls |-> clspath, run |-> runs])
  /\ UNCHANGED << crawler, addon >>

pre_load_object ==
  /\ pre_load_object_step
  /\ UNCHANGED << crawler, addons, addon >>

pre_update_pre_crawler_settings ==
  /\ pc = "pre_update_pre_crawler_settings"
  /\ LET k == AddonClass(clspath)
     IN IF hasattr(k, "update_pre_crawler_settings")
          THEN /\ settings' = CallEffect(settings, clspath, k.pre_write, "pre", k.pre)
               /\ events' = Append(events,
                      Event("update_pre_crawler_settings", k.pre, k.pre_write, "pre"))
               /\ pc' = pre_Next("update_pre_crawler_settings", k.pre, "pre_for")
          ELSE /\ pc' = "pre_for"
               /\ UNCHANGED << settings, events >>
  /\ UNCHANGED << crawler, addons, phase, order, idx, addon, log, runs, p2runs, entry >>

\* ------------------------------------------------------------ specification
Next ==
  \/ load_settings
  \/ ls_for
  \/ ls_load_object
  \/ ls_build_from_crawler
  \/ ls_update_settings
  \/ ls_append
  \/ ls_log_enabled
  \/ load_pre_crawler_settings
  \/ pre_for
  \/ pre_load_object
  \/ pre_update_pre_crawler_settings

Spec == Init /\ [][Next]_vars

\* ------------------------------------------------------------ vocabulary of the properties
Ended == pc \in {"returned", "raised"}

\* The resolver's order for the ADDONS entry the current call started from.
ResolverOrder == build_component_list(entry.settings.ADDONS)

Items(s) == { s[i] : i \in 1..Len(s) }

\* The position of each item of a duplicate-free sequence.
PosMap(s) == [ c \in Items(s) |-> CHOOSE i \in 1..Len(s) : s[i] = c ]

\* The instances the current call has appended, and their classes.
New == SubSeq(addons, Len(entry.addons) + 1, Len(addons))

ClsSeq(s) == [ i \in 1..Len(s) |-> s[i].cls ]

NewClasses == Items(ClsSeq(New))

EventIdx == 1..Len(events)

\* Add-ons whose processing the current call has started.
Touched == { events[i].clspath : i \in EventIdx }

\* Add-ons that have raised exc in the current call.
RaisedSet(exc) == { events[i].clspath : i \in { j \in EventIdx : events[j].exc = exc } }

NoFatalError == \A i \in EventIdx : events[i].exc # "Error"

\* ------------------------------------------------------------ C1
\* C1 (Isolation): in load_settings, an add-on whose construction raised
\* NotConfigured is never in addons; the signal itself does not abort the call
\* (the loop goes on to the next item); and when the call has ended, the add-on
\* that follows it has been processed, and unless some add-on raised a fatal
\* error the call returned with every later add-on processed and, if it raised
\* nothing itself, appended.
C1_Isolation ==
  phase = 2 =>
    LET ro == ResolverOrder
        pos == PosMap(ro)
        new == NewClasses
        touched == Touched
        optedOut == RaisedSet("NotConfigured")
        clean == NoFatalError
    IN \A i \in EventIdx :
      LET c == events[i].clspath
      IN (events[i].op = "build_from_crawler" /\ events[i].exc = "NotConfigured") =>
           /\ c \notin new
           /\ (i = Len(events) => pc # "raised")
           /\ (Ended /\ pos[c] < Len(ro) => ro[pos[c] + 1] \in touched)
           /\ (Ended /\ clean =>
                 /\ pc = "returned"
                 /\ \A d \in Items(ro) :
                      pos[d] > pos[c] =>
                        /\ d \in touched
                        /\ (d \notin optedOut => d \in new))

\* A completed call in which a constructor opted out and a later add-on was appended.
C1_Witness ==
  /\ phase = 2 /\ pc = "returned"
  /\ \E i \in EventIdx :
       /\ events[i].op = "build_from_crawler" /\ events[i].exc = "NotConfigured"
       /\ \E d \in NewClasses :
            PosMap(ResolverOrder)[d] > PosMap(ResolverOrder)[events[i].clspath]

\* ------------------------------------------------------------ C2
\* C2 (Fatal propagation): in load_settings, once a constructor or an
\* update_settings hook has raised an error other than NotConfigured, the call
\* has raised at that add-on: it is the last call made into add-on code, no
\* later add-on of the resolver order has been touched, the failing add-on is
\* not in addons, and the instances the call appended are exactly the add-ons
\* before it that did not opt out, in resolver order.
C2_FatalPropagation ==
  phase = 2 =>
    LET ro == ResolverOrder
        pos == PosMap(ro)
        new == New
        touched == Touched
        optedOut == RaisedSet("NotConfigured")
    IN \A i \in EventIdx :
      LET c == events[i].clspath
          Survived(d) == pos[d] < pos[c] /\ d \notin optedOut
      IN (events[i].op \in {"build_from_crawler", "update_settings"}
            /\ events[i].exc = "Error") =>
           /\ i = Len(events)
           /\ pc = "raised"
           /\ \A d \in Items(ro) : pos[d] > pos[c] => d \notin touched
           /\ c \notin Items(ClsSeq(new))
           /\ addons = entry.addons \o new
           /\ ClsSeq(new) = SelectSeq(ro, Survived)

\* An abort in a hook after one add-on was appended and one opted out.
C2_Witness ==
  /\ phase = 2 /\ pc = "raised"
  /\ Len(events) > 0
  /\ events[Len(events)].exc = "Error"
  /\ events[Len(events)].op = "update_settings"
  /\ New # << >>
  /\ RaisedSet("NotConfigured") # {}

\* ------------------------------------------------------------ C3
\* C3 (Ordering): in both phases the calls into add-on code are made in the
\* resolver's order for the ADDONS entry the call started from: every called
\* add-on is a configured one, no add-on is called after one that follows it in
\* that order, and that order is ascending in priority.
C3_Ordering ==
  LET ro == ResolverOrder
      pos == PosMap(ro)
      prio == entry.settings.ADDONS
  IN /\ \A i \in EventIdx : events[i].clspath \in Items(ro)
     /\ \A i \in EventIdx : i > 1 => pos[events[i - 1].clspath] <= pos[events[i].clspath]
     /\ \A i \in 1..Len(ro) : i > 1 => prio[ro[i - 1]] <= prio[ro[i]]

\* The hooks of three add-ons have run in one call, in an order that is not
\* the order of the class table.
C3_Witness ==
  /\ Ended
  /\ Cardinality({ events[i].clspath : i \in
        { j \in EventIdx : events[j].op \in
            {"update_settings", "update_pre_crawler_settings"} } }) >= 3
  /\ \E c, d \in Items(ResolverOrder) :
       Rank(c) < Rank(d) /\ entry.settings.ADDONS[c] > entry.settings.ADDONS[d]

\* ------------------------------------------------------------ C4
\* The ADDONS mappings that name the same add-ons as a and differ from it at
\* most in the priorities.
Reprioritised(a) == Priorities(DOMAIN a)

\* An add-on whose every step does the same whatever the settings hold.
Unconditional(c) == AddonClass(c).requires = ""

\* C4 as stated (Priority independence of activation): when a call of
\* load_settings has returned, the set of add-ons it activated is the set that
\* load_settings activates from the same settings under every other assignment
\* of priorities to the same add-ons.
C4_PriorityIndependence ==
  (phase = 2 /\ pc = "returned") =>
    LET new == NewClasses
    IN \A a \in Reprioritised(entry.settings.ADDONS) :
         ls_result([entry.settings EXCEPT !.ADDONS = a]).active = new

\* C4 as amended: for ADDONS entries in which no add-on's outcome depends on a
\* settings entry, whether load_settings returns or raises is the same under
\* every assignment of priorities to the same add-ons, and the calls that
\* return activate the same set of add-ons.
C4_PriorityIndependenceUnconditional ==
  (phase = 2 /\ Ended /\ \A c \in DOMAIN entry.settings.ADDONS : Unconditional(c)) =>
    LET new == NewClasses
    IN \A a \in Reprioritised(entry.settings.ADDONS) :
         LET r == ls_result([entry.settings EXCEPT !.ADDONS = a])
         IN /\ r.raised <=> pc = "raised"
            /\ pc = "returned" => r.active = new

\* A completed call over three unconditional add-ons, one activated and one
\* that opted out before it in the order.
C4_Witness ==
  /\ phase = 2 /\ pc = "returned"
  /\ Len(order) = 3
  /\ \A c \in DOMAIN entry.settings.ADDONS : Unconditional(c)
  /\ \E c \in RaisedSet("NotConfigured") : \E d \in NewClasses :
       PosMap(ResolverOrder)[c] < PosMap(ResolverOrder)[d]

\* ------------------------------------------------------------ C5
\* The settings after the writes of the first k calls into add-on code of the
\* current call, applied in order to the settings the call started from.
RECURSIVE Replay(_)
Replay(k) ==
  IF k = 0 THEN entry.settings
  ELSE ApplyWrite(Replay(k - 1), events[k].clspath, events[k].write, events[k].mark)

\* C5 (Mutation visibility): within one call of either phase, the settings a
\* constructor or hook is handed are the settings the call started from with
\* exactly the writes of the calls made before it, in order: an entry written
\* by an add-on that precedes it holds the value written last, and the entry
\* of every add-on that follows it holds the value it had when the call began.
C5_MutationVisibility ==
  LET pos == PosMap(ResolverOrder)
  IN \A i \in EventIdx :
       LET b == events[i].clspath
           seen == events[i].seen
       IN /\ seen = Replay(i - 1)
          /\ \A j \in 1..(i - 1) :
               (events[j].write = "own"
                  /\ \A l \in (j + 1)..(i - 1) :
                       ~(events[l].clspath = events[j].clspath /\ events[l].write = "own"))
                 => seen.vals[events[j].clspath] = events[j].mark
          /\ \A d \in DOMAIN pos :
               pos[d] > pos[b] => seen.vals[d] = entry.settings.vals[d]

\* Beta's constructor ran after Alpha's hook in the same call, read Alpha's
\* entry as that hook wrote it and did not opt out.
C5_Witness ==
  /\ phase = 2
  /\ entry.settings.vals["Alpha"] = Unset
  /\ \E i \in EventIdx :
       /\ events[i].clspath = "Beta" /\ events[i].op = "build_from_crawler"
       /\ events[i].exc = "none"
       /\ events[i].seen.vals["Alpha"] = "post"

\* ------------------------------------------------------------ C6
\* C6 (Phase isolation): during and after a call of load_pre_crawler_settings,
\* returned or raised, addons and crawler are what they were when the call
\* began, no instance has been bound and build_from_crawler has not been
\* called; and addons is empty as long as load_settings has never been called.
C6_PhaseIsolation ==
  /\ phase = 1 =>
       /\ addons = entry.addons
       /\ crawler = entry.crawler
       /\ addon = << >>
       /\ \A i \in EventIdx : events[i].op # "build_from_crawler"
  /\ p2runs = 0 => addons = << >>

\* A call of load_pre_crawler_settings that raised after a hook changed the
\* settings, on a manager whose addons an earlier load_settings had filled.
C6_Witness ==
  /\ phase = 1 /\ pc = "raised"
  /\ addons # << >>
  /\ settings # entry.settings

\* ------------------------------------------------------------ C7
\* C7 (Phase 1 has no failure isolation): in load_pre_crawler_settings, once a
\* call into add-on code has raised anything, NotConfigured included, the call
\* has raised: that call is the last one made and no add-on later in the
\* resolver order has been loaded or hooked.
C7_Phase1NoIsolation ==
  phase = 1 =>
    LET pos == PosMap(ResolverOrder)
        touched == Touched
    IN \A i \in EventIdx :
         events[i].exc # "none" =>
           /\ i = Len(events)
           /\ pc = "raised"
           /\ \A d \in DOMAIN pos : pos[d] > pos[events[i].clspath] => d \notin touched

\* A pre-crawler hook raised NotConfigured with an add-on still to come.
C7_Witness ==
  /\ phase = 1 /\ pc = "raised"
  /\ Len(events) > 0
  /\ events[Len(events)].op = "update_pre_crawler_settings"
  /\ events[Len(events)].exc = "NotConfigured"
  /\ idx < Len(order)

\* ------------------------------------------------------------ C8
\* C8 (Disable from the post-context hook): in load_settings, an add-on whose
\* update_settings raised NotConfigured was constructed, is never in addons,
\* and the signal does not leave the call: the loop takes the next item, so
\* that when the call has ended the add-on that follows has been processed.
C8_DisableFromHook ==
  phase = 2 =>
    LET ro == ResolverOrder
        pos == PosMap(ro)
        new == NewClasses
        touched == Touched
    IN \A i \in EventIdx :
         LET c == events[i].clspath
         IN (events[i].op = "update_settings" /\ events[i].exc = "NotConfigured") =>
              /\ i > 1
              /\ events[i - 1].clspath = c
              /\ events[i - 1].op = "build_from_crawler"
              /\ events[i - 1].exc = "none"
              /\ c \notin new
              /\ (i = Len(events) =>
                    pc \in {"ls_for", "ls_load_object", "ls_log_enabled", "returned"})
              /\ (i < Len(events) => events[i + 1].clspath = ro[pos[c] + 1])
              /\ (Ended /\ pos[c] < Len(ro) => ro[pos[c] + 1] \in touched)

\* A completed call in which a hook opted out and the next add-on was appended.
C8_Witness ==
  /\ phase = 2 /\ pc = "returned"
  /\ \E i \in EventIdx :
       /\ events[i].op = "update_settings" /\ events[i].exc = "NotConfigured"
       /\ \E d \in NewClasses :
            PosMap(ResolverOrder)[d] = PosMap(ResolverOrder)[events[i].clspath] + 1

\* ------------------------------------------------------------ C9
\* C9 (No rollback): in either phase, the settings are at every moment the
\* settings the call started from with every write made so far by a
\* constructor or hook, whether or not the writer then raised; in particular
\* the entry written by an add-on that then raised NotConfigured or an error
\* still holds the written value, also after the call has returned or raised.
C9_NoRollback ==
  /\ settings = Replay(Len(events))
  /\ \A i \in EventIdx :
       (events[i].exc # "none" /\ events[i].write = "own")
         => settings.vals[events[i].clspath] = events[i].mark

\* A call of load_settings that raised in a constructor which had written its
\* entry, after another constructor had written its entry and opted out.
C9_Witness ==
  /\ phase = 2 /\ pc = "raised"
  /\ \E i, j \in EventIdx :
       /\ i < j
       /\ events[i].exc = "NotConfigured" /\ events[i].write = "own"
       /\ events[j].exc = "Error" /\ events[j].write = "own"
       /\ settings.vals[events[i].clspath] # entry.settings.vals[events[i].clspath]
       /\ settings.vals[events[j].clspath] # entry.settings.vals[events[j].clspath]

\* ------------------------------------------------------------ C10
\* Whether the exception of the i-th call into add-on code left the method.
Propagated(i) == i = Len(events) /\ pc = "raised"

Phase2AfterPhase1 == phase = 1 /\ pc = "returned" /\ phase' = 2

\* C11 as stated (Cross-phase order agreement): the list load_settings
\* iterates is the list the preceding load_pre_crawler_settings iterated,
\* whatever its hooks did.
C11_SameOrderAcrossPhases ==
  [][Phase2AfterPhase1 => order' = order]_vars

\* C11 as amended: load_settings iterates the resolver's order for ADDONS as
\* load_pre_crawler_settings left it; that is the list
\* load_pre_crawler_settings iterated when no hook changed the ADDONS entry.
C11_SameOrderUnlessAddonsChanged ==
  [][Phase2AfterPhase1 =>
       /\ order' = build_component_list(settings.ADDONS)
       /\ (settings.ADDONS = entry.settings.ADDONS => order' = order)]_vars

\* load_settings has been entered after a load_pre_crawler_settings that ran
\* the hook of the last of three add-ons and left ADDONS as it was.
C11_Witness ==
  /\ phase = 2 /\ pc = "ls_for" /\ idx = 0
  /\ runs = 2 /\ p2runs = 1
  /\ Len(order) = 3
  /\ "Mover" \notin Items(order)
  /\ settings.vals[order[3]] = "pre"

\* ------------------------------------------------------------ C12
\* C12 (Stability of the active list): once load_settings has been called and
\* is not running, every step that is not a new call of load_settings, the
\* steps of a later load_pre_crawler_settings included, leaves addons as it is:
\* reading it again returns the same sequence.
C12_ActiveListStable ==
  [][(p2runs >= 1 /\ ~(phase = 2 /\ ~Ended) /\ p2runs' = p2runs)
       => addons' = addons]_vars

\* A call of load_pre_crawler_settings has returned, having changed the
\* settings, after a load_settings that activated all three add-ons.
C12_Witness ==
  /\ phase = 1 /\ pc = "returned"
  /\ p2runs = 1
  /\ Len(addons) = 3
  /\ Len(order) = 3
  /\ settings.vals # entry.settings.vals

\* ------------------------------------------------------------ C13
IsPrefix(s, u) == Len(s) <= Len(u) /\ SubSeq(u, 1, Len(s)) = s

\* In a call of load_settings, addons is what it was at entry followed by the
\* add-ons whose iteration is over and that raised nothing, in resolver order.
ActiveListShape ==
  phase = 2 =>
    LET ro == ResolverOrder
        pos == PosMap(ro)
        raisedAny == RaisedSet("NotConfigured") \cup RaisedSet("Error")
        Over(d) ==
          \/ pos[d] < idx
          \/ pos[d] = idx /\ pc \in {"ls_for", "ls_log_enabled", "returned"}
        Activated(d) == Over(d) /\ d \notin raisedAny
    IN /\ IsPrefix(entry.addons, addons)
       /\ ClsSeq(New) = SelectSeq(ro, Activated)
       /\ \A i \in 1..Len(New) : New[i].run = runs

\* C13 (Active-list invariant): during a call of load_settings every step
\* leaves addons as it is or appends at its end, and in every state addons
\* holds, after what it held at entry, exactly the add-ons processed so far
\* that were not disabled, in resolver order.
C13_ActiveListInvariant ==
  /\ []ActiveListShape
  /\ [][(phase = 2 /\ phase' = 2 /\ runs' = runs) => IsPrefix(addons, addons')]_vars

\* Two add-ons were activated around one that opted out.
C13_Witness ==
  /\ phase = 2 /\ pc = "returned"
  /\ Len(New) = 2
  /\ Len(order) = 3
  /\ order[2] \in RaisedSet("NotConfigured")

\* ------------------------------------------------------------ C14
\* The calls into the code of add-on c made by the current call, in order.
OpsOf(c) ==
  LET Mine(e) == e.clspath = c
      mine == SelectSeq(events, Mine)
  IN [ i \in 1..Len(mine) |-> mine[i].op ]

\* The steps of the state machine of one identifier in load_settings.
Lifecycle(c) ==
  IF AddonClass(c).has_us
    THEN << "load_object", "build_from_crawler", "update_settings" >>
    ELSE << "load_object", "build_from_crawler" >>

\* C14 (Per-identifier state machine): in a call of load_settings the calls
\* made for one identifier are an initial part of load, construction, hook (the
\* hook only when the instance has one), each made once and in that order;
\* an identifier that raised is called no further and is never in addons; an
\* identifier is in addons at most once, and only after all its steps returned;
\* and when the call has returned, every configured identifier is either in
\* addons (Active) or has raised NotConfigured (Disabled), never both.
C14_PerIdentifierStateMachine ==
  phase = 2 =>
    LET ro == ResolverOrder
        newSeq == ClsSeq(New)
        new == Items(newSeq)
        disabled == RaisedSet("NotConfigured")
        failed == RaisedSet("Error")
    IN /\ \A c \in Items(ro) :
            LET ops == OpsOf(c)
            IN /\ IsPrefix(ops, Lifecycle(c))
               /\ c \in new => (ops = Lifecycle(c) /\ c \notin disabled \cup failed)
               /\ Cardinality({ i \in 1..Len(newSeq) : newSeq[i] = c }) <= 1
       /\ \A i \in EventIdx :
            events[i].exc # "none" =>
              \A j \in EventIdx : j > i => events[j].clspath # events[i].clspath
       /\ pc = "returned" =>
            /\ failed = {}
            /\ new \cup disabled = Items(ro)
            /\ new \cap disabled = {}

\* A returned call that left one add-on Active and two Disabled, one by its
\* constructor and one by its hook.
C14_Witness ==
  /\ phase = 2 /\ pc = "returned"
  /\ Len(New) = 1
  /\ \E i, j \in EventIdx :
       /\ events[i].op = "build_from_crawler" /\ events[i].exc = "NotConfigured"
       /\ events[j].op = "update_settings" /\ events[j].exc = "NotConfigured"

\* ------------------------------------------------------------ C15
\* C15 (Optional hooks): in load_settings an add-on that was constructed and
\* has no update_settings is never hooked and is appended by the end of its
\* iteration; in load_pre_crawler_settings a class without
\* update_pre_crawler_settings is loaded, never hooked, raises nothing and
\* leaves the settings as they were when it was loaded.
C15_OptionalHooks ==
  \A i \in EventIdx :
    LET c == events[i].clspath
        hooked == \E j \in EventIdx :
                    /\ events[j].clspath = c
                    /\ events[j].op \in {"update_settings", "update_pre_crawler_settings"}
    IN /\ (phase = 2 /\ events[i].op = "build_from_crawler" /\ events[i].exc = "none"
             /\ ~AddonClass(c).has_us) =>
            /\ ~hooked
            /\ (i < Len(events) \/ pc \notin {"ls_update_settings", "ls_append"})
                 => c \in NewClasses
       /\ (phase = 1 /\ events[i].op = "load_object" /\ events[i].exc = "none"
             /\ ~AddonClass(c).has_pre) =>
            /\ ~hooked
            /\ i = Len(events) => (pc # "raised" /\ settings = events[i].seen)
            /\ i < Len(events) =>
                 (events[i + 1].clspath # c /\ events[i + 1].seen = events[i].seen)

\* After a load_pre_crawler_settings that loaded it, load_settings has
\* returned with the hookless add-on appended between two others.
C15_Witness ==
  /\ phase = 2 /\ pc = "returned"
  /\ runs = 2 /\ p2runs = 1
  /\ Len(order) = 3 /\ order[2] = "NoHooks"
  /\ Len(New) = 3

\* ------------------------------------------------------------ C16
\* The "Enabled addons" records of the current call.
InfoIdx == { l \in 1..Len(log) : log[l].level = "INFO" }

\* C16 (Summary emission): a call of load_settings has logged the "Enabled
\* addons" record exactly once when it has returned and not at all before or
\* when it raised; the record is the last one logged, it reports addons as it
\* is, and by then the loop has taken every item and every configured
\* identifier is Active or Disabled. load_pre_crawler_settings logs nothing.
C16_SummaryEmission ==
  /\ phase = 1 => log = << >>
  /\ phase = 2 =>
       /\ Cardinality(InfoIdx) = IF pc = "returned" THEN 1 ELSE 0
       /\ pc = "returned" =>
            /\ log[Len(log)].level = "INFO"
            /\ log[Len(log)].addons = addons
            /\ idx = Len(order)
            /\ NewClasses \cup RaisedSet("NotConfigured") = Items(ResolverOrder)
            /\ RaisedSet("Error") = {}

\* A second call of load_settings has returned: its summary lists what the
\* first call left and what this one appended, after one warning.
C16_Witness ==
  /\ phase = 2 /\ pc = "returned"
  /\ p2runs = 2
  /\ entry.addons # << >>
  /\ New # << >>
  /\ Len(log) = 2

\* ------------------------------------------------------------ C17
\* The (identifier, reason) pairs of the warnings logged, in order.
Warnings ==
  LET IsWarning(r) == r.level = "WARNING"
      w == SelectSeq(log, IsWarning)
  IN [ i \in 1..Len(w) |-> << w[i].clspath, w[i].eargs >> ]

\* The (identifier, reason) pairs of the NotConfigured signals that were caught
\* and carried args, in order.
ReasonedOptOuts ==
  LET Reasoned(e) == e.exc = "NotConfigured" /\ AddonClass(e.clspath).args # << >>
      caught == IF pc = "raised" THEN SubSeq(events, 1, Len(events) - 1) ELSE events
      r == SelectSeq(caught, Reasoned)
  IN [ i \in 1..Len(r) |-> << r[i].clspath, AddonClass(r[i].clspath).args[1] >> ]

\* C17 (Disable warning): in a call of load_settings the warnings logged are,
\* in order, one "Disabled <identifier>: <reason>" for each add-on that raised
\* NotConfigured with args, carrying its first arg; an add-on that raised
\* NotConfigured without args and an add-on that is in addons have no warning.
C17_DisableWarning ==
  phase = 2 =>
    LET warned == { Warnings[i][1] : i \in 1..Len(Warnings) }
    IN /\ Warnings = ReasonedOptOuts
       /\ \A c \in NewClasses : c \notin warned
       /\ \A c \in RaisedSet("NotConfigured") :
            c \in warned <=> AddonClass(c).args # << >>

\* One add-on opted out with a reason and was warned about, one opted out
\* silently, one is active.
C17_Witness ==
  /\ phase = 2 /\ pc = "returned"
  /\ Len(Warnings) = 1
  /\ Cardinality(RaisedSet("NotConfigured")) = 2
  /\ Len(New) = 1

\* ------------------------------------------------------------ C18
Running == pc \notin {"idle", "returned", "raised"}

\* How far the statement at pc is from the end of its iteration.
StepsLeft ==
  CASE pc \in {"ls_load_object", "pre_load_object"}                        -> 6
    [] pc \in {"ls_build_from_crawler", "pre_update_pre_crawler_settings"} -> 5
    [] pc = "ls_update_settings"                                           -> 4
    [] pc = "ls_append"                                                    -> 3
    [] pc \in {"ls_for", "pre_for"}                                        -> 2
    [] pc = "ls_log_enabled"                                               -> 1
    [] OTHER                                                               -> 0

\* A bound on the number of steps the current call can still take.
Measure == 5 * (Len(order) - idx) + StepsLeft

\* A call that is running can take a step; a call that returned has taken every
\* item of the list; a call that raised did so in a call into add-on code; and
\* no identifier was loaded twice.
TerminationShape ==
  /\ Running => ENABLED Next
  /\ (Ended /\ phase # 0) =>
       /\ pc = "returned" => (idx = Len(order) /\ Touched = Items(order))
       /\ pc = "raised" => (Len(events) > 0 /\ events[Len(events)].exc # "none")
  /\ \A i, j \in EventIdx :
       (events[i].op = "load_object" /\ events[j].op = "load_object"
          /\ events[i].clspath = events[j].clspath) => i = j

\* C18 (Termination): every step of a running call of either method lowers a
\* bound on the steps left and never moves the loop back, a running call can
\* always take a step, and a call ends either returned, with every identifier
\* loaded exactly once, or raised by an error of an add-on.
C18_Termination ==
  /\ []TerminationShape
  /\ [][Running => (Measure' < Measure /\ Measure' >= 0 /\ idx' >= idx)]_vars

\* A call of load_settings that raised at the second of three add-ons, after
\* the first had opted out.
C18_Witness ==
  /\ phase = 2 /\ pc = "raised"
  /\ idx = 2 /\ Len(order) = 3
  /\ order[1] \in RaisedSet("NotConfigured")

\* ------------------------------------------------------------ C19
\* The identifiers the current call has loaded, in order.
Loaded ==
  LET IsLoad(e) == e.op = "load_object"
      l == SelectSeq(events, IsLoad)
  IN [ i \in 1..Len(l) |-> l[i].clspath ]

\* The statements of an iteration that follow its load_object.
MidIteration ==
  { "ls_build_from_crawler", "ls_update_settings", "ls_append",
    "pre_update_pre_crawler_settings" }

\* C19 (Snapshot of the identifier list): in either phase the list the loop
\* iterates is the resolver's order for ADDONS as it was when the call began,
\* whatever the hooks have written to ADDONS since: the identifiers loaded so
\* far are the first idx items of that order, every call into add-on code is
\* for the item the loop is at, and a call that returned has loaded all of
\* them and nothing else.
C19_IdentifierListSnapshot ==
  phase # 0 =>
    LET ro == ResolverOrder
        loaded == Loaded
    IN /\ order = ro
       /\ IsPrefix(loaded, ro)
       /\ Len(loaded) = IF pc \in {"ls_load_object", "pre_load_object"}
                          THEN idx - 1 ELSE idx
       /\ \A i \in EventIdx :
            \E n \in 1..Len(loaded) :
              /\ events[i].clspath = ro[n]
              /\ (i = Len(events) /\ pc \in MidIteration) => n = idx
       /\ pc = "returned" => loaded = ro

\* A call of load_settings returned after its first add-on had added an entry
\* to ADDONS and removed its own: it still processed the three identifiers it
\* started with and not the added one.
C19_Witness ==
  /\ phase = 2 /\ pc = "returned"
  /\ Len(order) = 3
  /\ order[1] = "Mover"
  /\ "NoHooks" \notin Items(order)
  /\ "NoHooks" \in DOMAIN settings.ADDONS
  /\ "Mover" \notin DOMAIN settings.ADDONS
  /\ Len(Loaded) = 3

\* ------------------------------------------------------------ C20
\* An add-on that load_settings activates on every call and that leaves ADDONS
\* alone.
AlwaysSucceeds(c) ==
  LET k == AddonClass(c)
  IN /\ k.load = "none" /\ k.requires = "" /\ k.ctor = "none"
     /\ k.ctor_write \in {"none", "own"}
     /\ k.has_us => (k.us = "none" /\ k.us_write \in {"none", "own"})

\* In a call of load_settings addons keeps, in front, what it held at entry;
\* and after k calls of load_settings, all returned, over the same n add-ons
\* that always succeed (no add-on activated so far edits ADDONS, so every call
\* resolved the same list), addons holds k * n instances: the n of the first call
\* in resolver order, then the n of the second, and so on.
NoResetShape ==
  phase = 2 =>
    /\ IsPrefix(entry.addons, addons)
    /\ (pc = "returned" /\ p2runs = runs
          /\ \A c \in DOMAIN settings.ADDONS : AlwaysSucceeds(c)
          /\ \A j \in 1..Len(addons) : AlwaysSucceeds(addons[j].cls)) =>
         LET n == Len(order)
         IN /\ Len(addons) = p2runs * n
            /\ \A r \in 1..p2runs : \A i \in 1..n :
                 addons[(r - 1) * n + i] = [cls |-> order[i], run |-> r]

\* C20 (No reset on re-run): entering load_settings leaves addons as the
\* earlier calls left it, returned or raised, and the call appends after it; k
\* returned calls over the same n always-succeeding add-ons leave k * n
\* instances.
C20_NoResetOnRerun ==
  /\ []NoResetShape
  /\ [][p2runs' = p2runs + 1 => addons' = addons]_vars

\* A second call of load_settings over two always-succeeding add-ons has
\* returned with four instances.
C20_Witness ==
  /\ phase = 2 /\ pc = "returned"
  /\ p2runs = 2 /\ runs = 2
  /\ Len(order) = 2
  /\ \A c \in DOMAIN settings.ADDONS : AlwaysSucceeds(c)
  /\ Len(addons) = 4

====
